---- MODULE Spec2Model ----
(***************************************************************************)
(* A model of claude-activity.py: the time-window resolver (parse_since),  *)
(* the record stream parser (parse_session_file), the cost calculator      *)
(* (calculate_cost, get_pricing), the project label (format_project_name)  *)
(* and the rollup loop of main.                                            *)
(*                                                                         *)
(* Conventions.  Python's None and "no value" are the empty sequence <<>>, *)
(* a present value x is <<x>>.  A str is a sequence of one-character       *)
(* strings.  A datetime is [inst, aware]: inst counts hours since          *)
(* 1970-01-01T00, aware says whether a tzinfo is attached.  A decoded JSON *)
(* value is a tagged record (JNull, JStr, JNum, JArr, JObj).  Money is     *)
(* exact: rates are hundredths of a dollar per million tokens, so a cost   *)
(* is an integer count of 1e-8 dollars.                                    *)
(***************************************************************************)
EXTENDS Integers, Sequences, FiniteSets, TLC

\* Bounds of the model.
MaxFiles == 2
MaxLines == 3
MaxTokens == 2

None == <<>>
Some(x) == <<x>>

(***************************************************************************)
(* Strings.                                                                *)
(***************************************************************************)
DigitChars == <<"0", "1", "2", "3", "4", "5", "6", "7", "8", "9">>

IsDigit(c) == \E i \in 1..10 : DigitChars[i] = c

DigitVal(c) == (CHOOSE i \in 1..10 : DigitChars[i] = c) - 1

AllDigits(s) == \A i \in 1..Len(s) : IsDigit(s[i])

RECURSIVE DecVal(_)
DecVal(s) ==
    IF s = <<>> THEN 0
    ELSE 10 * DecVal(SubSeq(s, 1, Len(s) - 1)) + DigitVal(s[Len(s)])

\* str.replace(old, new) for a one-character old.
RECURSIVE StrReplace(_, _, _)
StrReplace(s, old, new) ==
    IF s = <<>> THEN <<>>
    ELSE (IF Head(s) = old THEN new ELSE <<Head(s)>>) \o StrReplace(Tail(s), old, new)

\* str.split(sep) for a one-character sep: the list of the parts, empty parts kept.
RECURSIVE StrSplit(_, _)
StrSplit(s, sep) ==
    IF \A i \in 1..Len(s) : s[i] # sep THEN <<s>>
    ELSE LET k == CHOOSE i \in 1..Len(s) :
                      s[i] = sep /\ \A j \in 1..(i - 1) : s[j] # sep
         IN  <<SubSeq(s, 1, k - 1)>> \o StrSplit(SubSeq(s, k + 1, Len(s)), sep)

\* sep.join(parts)
RECURSIVE StrJoin(_, _)
StrJoin(sep, parts) ==
    IF parts = <<>> THEN <<>>
    ELSE IF Len(parts) = 1 THEN parts[1]
    ELSE parts[1] \o sep \o StrJoin(sep, Tail(parts))

\* int(s): an optional sign and at least one decimal digit; None is ValueError.
PyInt(s) ==
    LET signed == s # <<>> /\ s[1] \in {"-", "+"}
        digits == IF signed THEN Tail(s) ELSE s
    IN  IF digits = <<>> \/ ~AllDigits(digits) THEN None
        ELSE Some(IF signed /\ s[1] = "-" THEN 0 - DecVal(digits) ELSE DecVal(digits))

(***************************************************************************)
(* datetime.  fromisoformat is modelled on the forms                       *)
(*   YYYY-MM-DD, YYYY-MM-DDTHH, YYYY-MM-DDTHHZ, YYYY-MM-DDTHH+HH:MM        *)
(* and raises ValueError (None) on every other string.                     *)
(***************************************************************************)
HoursPerDay == 24

IsLeap(y) == (y % 4 = 0 /\ y % 100 # 0) \/ y % 400 = 0

DaysInMonth(y, m) ==
    IF m = 2 THEN (IF IsLeap(y) THEN 29 ELSE 28)
    ELSE IF m \in {4, 6, 9, 11} THEN 30 ELSE 31

\* Days from 1970-01-01 to the civil date y-m-d.
DaysFromCivil(y, m, d) ==
    LET yy  == IF m <= 2 THEN y - 1 ELSE y
        era == yy \div 400
        yoe == yy - era * 400
        mp  == IF m > 2 THEN m - 3 ELSE m + 9
        doy == (153 * mp + 2) \div 5 + d - 1
        doe == yoe * 365 + yoe \div 4 - yoe \div 100 + doy
    IN  era * 146097 + doe - 719468

IsDateText(s) ==
    /\ Len(s) = 10
    /\ s[5] = "-" /\ s[8] = "-"
    /\ AllDigits(SubSeq(s, 1, 4)) /\ AllDigits(SubSeq(s, 6, 7)) /\ AllDigits(SubSeq(s, 9, 10))
    /\ LET y == DecVal(SubSeq(s, 1, 4))
           m == DecVal(SubSeq(s, 6, 7))
           d == DecVal(SubSeq(s, 9, 10))
       IN  y >= 1 /\ m \in 1..12 /\ d >= 1 /\ d <= DaysInMonth(y, m)

IsHourText(s) ==
    Len(s) = 3 /\ s[1] = "T" /\ AllDigits(SubSeq(s, 2, 3)) /\ DecVal(SubSeq(s, 2, 3)) < HoursPerDay

IsOffsetText(s) ==
    \/ s = <<"Z">>
    \/ /\ Len(s) = 6
       /\ s[1] \in {"+", "-"} /\ s[4] = ":"
       /\ AllDigits(SubSeq(s, 2, 3)) /\ AllDigits(SubSeq(s, 5, 6))
       /\ DecVal(SubSeq(s, 2, 3)) < HoursPerDay

DateInst(s) ==
    DaysFromCivil(DecVal(SubSeq(s, 1, 4)), DecVal(SubSeq(s, 6, 7)), DecVal(SubSeq(s, 9, 10)))
        * HoursPerDay

FromIsoFormat(s) ==
    IF Len(s) = 10 /\ IsDateText(s)
        THEN Some([inst |-> DateInst(s), aware |-> FALSE])
    ELSE IF Len(s) >= 13 /\ IsDateText(SubSeq(s, 1, 10)) /\ IsHourText(SubSeq(s, 11, 13))
        THEN LET t == DateInst(SubSeq(s, 1, 10)) + DecVal(SubSeq(s, 12, 13))
                 rest == SubSeq(s, 14, Len(s))
             IN  IF rest = <<>> THEN Some([inst |-> t, aware |-> FALSE])
                 ELSE IF IsOffsetText(rest) THEN Some([inst |-> t, aware |-> TRUE])
                 ELSE None
    ELSE None

\* dt.replace(hour=0, minute=0, second=0, microsecond=0)
Midnight(dt) == [dt EXCEPT !.inst = dt.inst - (dt.inst % HoursPerDay)]

\* dt - timedelta(days=n)
MinusDays(dt, n) == [dt EXCEPT !.inst = dt.inst - n * HoursPerDay]

\* dt.replace(tzinfo=None)
Naive(dt) == [dt EXCEPT !.aware = FALSE]

\* a < b on datetimes: None is the TypeError of comparing naive with aware.
DtLess(a, b) == IF a.aware # b.aware THEN None ELSE Some(a.inst < b.inst)

\* Literals.
kw_yesterday == <<"y", "e", "s", "t", "e", "r", "d", "a", "y">>
kw_today == <<"t", "o", "d", "a", "y">>
kw_week == <<"w", "e", "e", "k">>
kw_month == <<"m", "o", "n", "t", "h">>

\* parse_since(since_str), with datetime.now() = now.  None is the ValueError raised.
parse_since(since_str, now) ==
    IF since_str = kw_yesterday THEN Some(Midnight(MinusDays(now, 1)))
    ELSE IF since_str = kw_today THEN Some(Midnight(now))
    ELSE IF since_str = kw_week THEN Some(Midnight(MinusDays(now, 7)))
    ELSE IF since_str = kw_month THEN Some(Midnight(MinusDays(now, 30)))
    ELSE IF FromIsoFormat(since_str) # None THEN FromIsoFormat(since_str)
    ELSE IF PyInt(since_str) # None THEN Some(Midnight(MinusDays(now, PyInt(since_str)[1])))
    ELSE None

(***************************************************************************)
(* Pricing and cost.                                                       *)
(***************************************************************************)
\* PRICING, in hundredths of a dollar per million tokens.
PRICING ==
    [m \in {"claude-opus-4-5-20251101", "claude-sonnet-4-20250514",
            "claude-3-5-sonnet-20241022", "claude-3-5-haiku-20241022", "default"} |->
        IF m = "claude-opus-4-5-20251101"
            THEN [input |-> 1500, output |-> 7500, cache_read |-> 150, cache_write |-> 1875]
        ELSE IF m = "claude-3-5-haiku-20241022"
            THEN [input |-> 80, output |-> 400, cache_read |-> 8, cache_write |-> 100]
        ELSE [input |-> 300, output |-> 1500, cache_read |-> 30, cache_write |-> 375]]

\* PRICING.get(model, PRICING["default"]); model is None or Some(name).
get_pricing_FirstEntry(model) ==
    IF model # None /\ model[1] \in DOMAIN PRICING THEN PRICING[model[1]]
    ELSE PRICING["claude-opus-4-5-20251101"]

get_pricing(model) ==
    IF model # None /\ model[1] \in DOMAIN PRICING THEN PRICING[model[1]]
    ELSE PRICING["default"]

\* calculate_cost(session), in units of 1e-8 dollars (tokens / 1e6 * dollars).
calculate_cost(session) ==
    LET model == IF "model" \in DOMAIN session THEN session.model ELSE Some("default")
        pricing == get_pricing(model)
    IN  session.input_tokens * pricing.input
        + session.output_tokens * pricing.output
        + session.cache_read_tokens * pricing.cache_read
        + session.cache_write_tokens * pricing.cache_write

(***************************************************************************)
(* Project label.                                                          *)
(***************************************************************************)
w_home == <<"h", "o", "m", "e">>
w_user == <<"u", "s", "e", "r">>
w_Users == <<"U", "s", "e", "r", "s">>
w_root == <<"r", "o", "o", "t">>

skip_words == {<<>>, w_home, w_user, w_Users, w_root}

IsSignificant(part) == part \notin skip_words

format_project_name(encoded_name) ==
    LET parts == StrSplit(encoded_name, "-")
        significant_parts == SelectSeq(parts, IsSignificant)
    IN  IF significant_parts # <<>> THEN StrJoin(<<"-">>, significant_parts)
        ELSE encoded_name

(***************************************************************************)
(* Decoded JSON.  An object is a record of all the fields the program      *)
(* reads, a field the object does not have being Absent.                   *)
(***************************************************************************)
Absent == [t |-> "absent"]
JNull == [t |-> "null"]
JArr == [t |-> "arr"]
JStr(s) == [t |-> "str", s |-> s]
JText(c) == [t |-> "text", c |-> c]
JNum(n) == [t |-> "num", n |-> n]
JObj(o) == [t |-> "obj", o |-> o]

\* bool(v) of a value read with .get(key): an absent key reads as None.
Truthy(v) ==
    IF v.t \in {"absent", "null"} THEN FALSE
    ELSE IF v.t = "str" THEN v.s # ""
    ELSE IF v.t = "text" THEN v.c # <<>>
    ELSE IF v.t = "num" THEN v.n # 0
    ELSE TRUE

\* usage.get(key, 0)
GetOr0(v) == IF v = Absent THEN 0 ELSE v.n

\* One line of a file: blank, not decodable, not readable, or a JSON value.
BlankLine == [kind |-> "blank"]
GarbageLine == [kind |-> "garbage"]
UnreadableLine == [kind |-> "unreadable"]
JsonLine(v) == [kind |-> "json", value |-> v]

(***************************************************************************)
(* parse_session_file.  The dict sessions is [keys, val]: keys in          *)
(* insertion order, val the session of each key.                           *)
(***************************************************************************)
NewSession ==
    [messages |-> 0, input_tokens |-> 0, output_tokens |-> 0,
     cache_read_tokens |-> 0, cache_write_tokens |-> 0,
     start_time |-> None, end_time |-> None, model |-> None, git_branch |-> None]

EmptyDict == [keys |-> <<>>, val |-> <<>>]

Keys(d) == {d.keys[i] : i \in 1..Len(d.keys)}

\* sessions[session_id] of the defaultdict: the entry, made when missing.
Touch(d, k) ==
    IF k \in Keys(d) THEN d
    ELSE [keys |-> Append(d.keys, k),
          val |-> [x \in Keys(d) \cup {k} |-> IF x = k THEN NewSession ELSE d.val[x]]]

Put(d, k, s) == [d EXCEPT !.val = [x \in Keys(d) |-> IF x = k THEN s ELSE d.val[x]]]

\* The parsed timestamp of lines 93-102, None when the record is skipped there.
RecordTime(entry) ==
    LET timestamp_str == entry.timestamp
    IN  IF ~Truthy(timestamp_str) THEN None
        ELSE IF timestamp_str.t # "text" THEN None
        ELSE LET parsed == FromIsoFormat(StrReplace(timestamp_str.c, "Z",
                                                    <<"+", "0", "0", ":", "0", "0">>))
             IN  IF parsed = None THEN None ELSE Some(Naive(parsed[1]))

\* Lines 108-133 on a record that passed the filters: [sessions, raised].
UpdateSession(sessions, entry, timestamp) ==
    LET session_id == IF entry.sessionId = Absent THEN "unknown" ELSE entry.sessionId.s
        d0 == Touch(sessions, session_id)
        s0 == d0.val[session_id]
        s1 == [s0 EXCEPT
                 !.start_time = IF s0.start_time = None \/ timestamp.inst < s0.start_time[1].inst
                                THEN Some(timestamp) ELSE @,
                 !.end_time = IF s0.end_time = None \/ timestamp.inst > s0.end_time[1].inst
                              THEN Some(timestamp) ELSE @]
        s2 == IF Truthy(entry.gitBranch) THEN [s1 EXCEPT !.git_branch = Some(entry.gitBranch.s)]
              ELSE s1
    IN  IF ~(entry.type = JStr("assistant") /\ entry.message # Absent)
            THEN [sessions |-> Put(d0, session_id, s2), raised |-> FALSE]
        ELSE LET msg == entry.message
                 s3 == [s2 EXCEPT !.messages = @ + 1]
             IN  IF msg.t # "obj"
                     THEN [sessions |-> Put(d0, session_id, s3), raised |-> TRUE]
                 ELSE LET s4 == IF Truthy(msg.o.model)
                                THEN [s3 EXCEPT !.model = Some(msg.o.model.s)] ELSE s3
                          usage == msg.o.usage
                      IN  IF usage # Absent /\ usage.t # "obj"
                              THEN [sessions |-> Put(d0, session_id, s4), raised |-> TRUE]
                          ELSE LET u == IF usage = Absent
                                        THEN [input_tokens |-> Absent, output_tokens |-> Absent,
                                              cache_read_input_tokens |-> Absent,
                                              cache_creation_input_tokens |-> Absent]
                                        ELSE usage.o
                                   s5 == [s4 EXCEPT
                                            !.input_tokens = @ + GetOr0(u.input_tokens),
                                            !.output_tokens = @ + GetOr0(u.output_tokens),
                                            !.cache_read_tokens =
                                                @ + GetOr0(u.cache_read_input_tokens),
                                            !.cache_write_tokens =
                                                @ + GetOr0(u.cache_creation_input_tokens)]
                               IN  [sessions |-> Put(d0, session_id, s5), raised |-> FALSE]

\* The body of the loop of lines 85-133 for one line: [sessions, raised].  raised
\* says an exception left the loop (to the handler of line 134).
ProcessLine(sessions, line, since) ==
    IF line.kind = "unreadable" THEN [sessions |-> sessions, raised |-> TRUE]
    ELSE IF line.kind \in {"blank", "garbage"} THEN [sessions |-> sessions, raised |-> FALSE]
    ELSE LET entry == line.value
         IN  IF entry.t # "obj" THEN [sessions |-> sessions, raised |-> TRUE]
             ELSE LET timestamp == RecordTime(entry.o)
                  IN  IF timestamp = None THEN [sessions |-> sessions, raised |-> FALSE]
                      ELSE LET early == DtLess(timestamp[1], since)
                           IN  IF early = None THEN [sessions |-> sessions, raised |-> TRUE]
                               ELSE IF early[1] THEN [sessions |-> sessions, raised |-> FALSE]
                               ELSE UpdateSession(sessions, entry.o, timestamp[1])

\* The loop over lines[k..]: the dict at the end of the scan or at the exception.
RECURSIVE ScanFrom(_, _, _, _)
ScanFrom(sessions, lines, k, since) ==
    IF k > Len(lines) THEN sessions
    ELSE LET r == ProcessLine(sessions, lines[k], since)
         IN  IF r.raised THEN r.sessions ELSE ScanFrom(r.sessions, lines, k + 1, since)

\* parse_session_file(filepath, since): a file is [readable, lines].
parse_session_file(filepath, since) ==
    IF ~filepath.readable THEN EmptyDict
    ELSE ScanFrom(EmptyDict, filepath.lines, 1, since)

(***************************************************************************)
(* The rollup loop of main.  The three accumulators are one record         *)
(* [all_sessions, project_stats, total_stats]; a dict is a function.       *)
(***************************************************************************)
NewProjectStats ==
    [sessions |-> 0, messages |-> 0, input_tokens |-> 0, output_tokens |-> 0,
     cache_read_tokens |-> 0, cache_write_tokens |-> 0, cost |-> 0, models |-> {}]

NewTotalStats ==
    [sessions |-> 0, messages |-> 0, input_tokens |-> 0, output_tokens |-> 0,
     cache_read_tokens |-> 0, cache_write_tokens |-> 0, cost |-> 0]

\* d[k] = v on a dict
DictSet(d, k, v) == [x \in DOMAIN d \cup {k} |-> IF x = k THEN v ELSE d[x]]

\* line 216: the session is passed over.
SkipSession_Never(session) == FALSE

SkipSession(session) == session.messages = 0

\* lines 223-226: all_sessions[session_id] = {"project": ..., **session}
SetRegistry_KeepFirst(registry, session_id, entry) ==
    IF session_id \in DOMAIN registry THEN registry ELSE DictSet(registry, session_id, entry)

SetRegistry(registry, session_id, entry) == DictSet(registry, session_id, entry)

\* line 229: project_stats[readable_project] of the defaultdict.
ProjectEntry_Fresh(stats, readable) == NewProjectStats

ProjectEntry(stats, readable) ==
    IF readable \in DOMAIN stats THEN stats[readable] ELSE NewProjectStats

\* lines 241-247: total_stats after one session.
TotalAfter_CountOne(ts, session, session_cost) ==
    [sessions |-> ts.sessions + 1,
     messages |-> ts.messages + 1,
     input_tokens |-> ts.input_tokens + session.input_tokens,
     output_tokens |-> ts.output_tokens + session.output_tokens,
     cache_read_tokens |-> ts.cache_read_tokens + session.cache_read_tokens,
     cache_write_tokens |-> ts.cache_write_tokens + session.cache_write_tokens,
     cost |-> ts.cost + session_cost]

TotalAfter(ts, session, session_cost) ==
    [sessions |-> ts.sessions + 1,
     messages |-> ts.messages + session.messages,
     input_tokens |-> ts.input_tokens + session.input_tokens,
     output_tokens |-> ts.output_tokens + session.output_tokens,
     cache_read_tokens |-> ts.cache_read_tokens + session.cache_read_tokens,
     cache_write_tokens |-> ts.cache_write_tokens + session.cache_write_tokens,
     cost |-> ts.cost + session_cost]

\* The body of the loop of lines 215-247 for one session.
RollupSession(acc, project_name, session_id, session) ==
    IF SkipSession(session) THEN acc
    ELSE LET session_cost == calculate_cost(session)
             readable == format_project_name(project_name)
             entry == [project |-> readable, cost |-> session_cost,
                       messages |-> session.messages,
                       input_tokens |-> session.input_tokens,
                       output_tokens |-> session.output_tokens,
                       cache_read_tokens |-> session.cache_read_tokens,
                       cache_write_tokens |-> session.cache_write_tokens,
                       start_time |-> session.start_time, end_time |-> session.end_time,
                       model |-> session.model, git_branch |-> session.git_branch]
             ps == ProjectEntry(acc.project_stats, readable)
             ps1 == [sessions |-> ps.sessions + 1,
                     messages |-> ps.messages + session.messages,
                     input_tokens |-> ps.input_tokens + session.input_tokens,
                     output_tokens |-> ps.output_tokens + session.output_tokens,
                     cache_read_tokens |-> ps.cache_read_tokens + session.cache_read_tokens,
                     cache_write_tokens |-> ps.cache_write_tokens + session.cache_write_tokens,
                     cost |-> ps.cost + session_cost,
                     models |-> IF session.model # None
                                THEN ps.models \cup {session.model[1]} ELSE ps.models]
         IN  [all_sessions |-> SetRegistry(acc.all_sessions, session_id, entry),
              project_stats |-> DictSet(acc.project_stats, readable, ps1),
              total_stats |-> TotalAfter(acc.total_stats, session, session_cost)]

\* The loop of line 215 over sessions.items(), from the k-th key on.
RECURSIVE RollupFrom(_, _, _, _)
RollupFrom(acc, project_name, parsed, k) ==
    IF k > Len(parsed.keys) THEN acc
    ELSE RollupFrom(RollupSession(acc, project_name, parsed.keys[k], parsed.val[parsed.keys[k]]),
                    project_name, parsed, k + 1)

(***************************************************************************)
(* Inputs.                                                                 *)
(***************************************************************************)
\* datetime.now(): 2025-02-10T13.
Now == [inst |-> DaysFromCivil(2025, 2, 10) * HoursPerDay + 13, aware |-> FALSE]

t_2025_02 == <<"2", "0", "2", "5", "-", "0", "2", "-">>
ts_at == t_2025_02 \o <<"1", "0", "T", "0", "0", "Z">>
ts_before == t_2025_02 \o <<"0", "9", "T", "2", "3", "Z">>
ts_after == t_2025_02 \o <<"1", "0", "T", "0", "9", "+", "0", "5", ":", "0", "0">>
ts_bad == t_2025_02 \o <<"3", "0">>

tok_iso == t_2025_02 \o <<"0", "9", "T", "2", "3">>
tok_1 == <<"1">>
tok_minus3 == <<"-", "3">>
tok_abc == <<"a", "b", "c">>
tok_1_5 == <<"1", ".", "5">>

SinceTokens == {kw_today, kw_week, tok_iso, tok_1, tok_minus3, tok_abc, tok_1_5}

Entry(timestamp, sessionId, gitBranch, type, message) ==
    JObj([timestamp |-> timestamp, sessionId |-> sessionId, gitBranch |-> gitBranch,
          type |-> type, message |-> message])

Usage(i, o, cr, cw) ==
    JObj([input_tokens |-> i, output_tokens |-> o,
          cache_read_input_tokens |-> cr, cache_creation_input_tokens |-> cw])

Msg(model, usage) == JObj([model |-> model, usage |-> usage])

Assistant == JStr("assistant")
User == JStr("user")

\* Lines of session files.
SkippedEntries ==
    {Entry(ts, JStr("s1"), Absent, Assistant,
           Msg(Absent, Usage(JNum(1), JNum(1), JNum(1), JNum(1)))) :
        ts \in {Absent, JNull, JNum(5), JText(ts_bad), JText(ts_before)}}

Bodies ==
    {<<User, Absent>>, <<Assistant, Absent>>, <<Assistant, JNull>>,
     <<Assistant, Msg(Absent, Absent)>>, <<Assistant, Msg(JStr("m"), JNull)>>}
    \cup {<<Assistant, Msg(JStr("claude-3-5-haiku-20241022"),
                           Usage(JNum(n), Absent, JNum(n), JNum(1)))>> : n \in 1..MaxTokens}

WindowEntries ==
    {Entry(JText(ts_at), sid, Absent, b[1], b[2]) : sid \in {Absent, JStr("s1")}, b \in Bodies}
    \cup {Entry(JText(ts_after), JStr("s1"), JStr("main"), User, Absent),
          Entry(JText(ts_after), JStr("s1"), Absent, Assistant,
                Msg(Absent, Usage(Absent, JNum(1), Absent, Absent)))}

ParseLines ==
    {BlankLine, GarbageLine, UnreadableLine, JsonLine(JArr)}
    \cup {JsonLine(e) : e \in SkippedEntries \cup WindowEntries}

SeqsUpTo(S, n) == UNION {[1..k -> S] : k \in 0..n}

UnreadableFile == [readable |-> FALSE, lines |-> <<>>]

ParseFiles ==
    {UnreadableFile}
    \cup {[readable |-> TRUE, lines |-> l] : l \in SeqsUpTo(ParseLines, MaxLines)}

ParseCutoffs == {Midnight(Now), FromIsoFormat(tok_iso)[1]}

\* Project directories and session files of a run.
w_alice == <<"a", "l", "i", "c", "e">>
w_bob == <<"b", "o", "b">>
w_myrepo == <<"m", "y", "r", "e", "p", "o">>
w_tool == <<"t", "o", "o", "l">>
w_v2 == <<"v", "2">>

dir_home_alice_myrepo == <<"-">> \o w_home \o <<"-">> \o w_alice \o <<"-">> \o w_myrepo
dir_home_user_myrepo == <<"-">> \o w_home \o <<"-">> \o w_user \o <<"-">> \o w_myrepo
dir_root_myrepo == <<"-">> \o w_root \o <<"-">> \o w_myrepo
dir_Users_bob_tool_v2 ==
    <<"-">> \o w_Users \o <<"-">> \o w_bob \o <<"-">> \o w_tool \o <<"-">> \o w_v2

ProjectDirs == {dir_home_alice_myrepo, dir_home_user_myrepo, dir_root_myrepo}

file_haiku ==
    [readable |-> TRUE,
     lines |-> <<GarbageLine,
                 JsonLine(Entry(JText(ts_after), JStr("s1"), JStr("main"), Assistant,
                                Msg(JStr("claude-3-5-haiku-20241022"),
                                    Usage(JNum(1000), JNum(500), Absent, Absent))))>>]

file_mixed ==
    [readable |-> TRUE,
     lines |-> <<JsonLine(Entry(JText(ts_after), JStr("s2"), Absent, User, Absent)),
                 JsonLine(Entry(JText(ts_at), Absent, Absent, Assistant, Msg(Absent, Absent)))>>]

file_opus ==
    [readable |-> TRUE,
     lines |-> <<JsonLine(Entry(JText(ts_at), JStr("s1"), Absent, Assistant,
                                Msg(JStr("claude-opus-4-5-20251101"),
                                    Usage(JNum(2), JNum(1), JNum(3), JNum(4))))),
                 JsonLine(Entry(JText(ts_before), JStr("s1"), Absent, Assistant,
                                Msg(JStr("gpt-x"), Usage(JNum(1), Absent, Absent, Absent))))>>]

file_broken ==
    [readable |-> TRUE,
     lines |-> <<JsonLine(Entry(JText(ts_after), JStr("s2"), Absent, Assistant,
                                Msg(JStr("gpt-x"), Usage(JNum(7), Absent, Absent, Absent)))),
                 JsonLine(JArr),
                 JsonLine(Entry(JText(ts_after), JStr("s3"), Absent, Assistant,
                                Msg(Absent, Usage(JNum(1), Absent, Absent, Absent))))>>]

RollupFiles == {file_haiku, file_mixed, file_opus, file_broken, UnreadableFile}

SessionFileLists == SeqsUpTo(ProjectDirs \X RollupFiles, MaxFiles)

\* The session of the worked example: haiku, 1000 input and 500 output tokens.
ExampleSession ==
    [model |-> Some("claude-3-5-haiku-20241022"), input_tokens |-> 1000,
     output_tokens |-> 500, cache_read_tokens |-> 0, cache_write_tokens |-> 0]

\* Sessions given to calculate_cost.
ModelNames == DOMAIN PRICING \cup {"gpt-x"}

CostSessions ==
    {[model |-> m, input_tokens |-> i, output_tokens |-> o,
      cache_read_tokens |-> cr, cache_write_tokens |-> cw] :
        m \in {None} \cup {Some(n) : n \in ModelNames},
        i \in 0..MaxTokens, o \in 0..MaxTokens, cr \in 0..MaxTokens, cw \in 0..MaxTokens}
    \cup {[input_tokens |-> i, output_tokens |-> o,
           cache_read_tokens |-> cr, cache_write_tokens |-> cw] :
        i \in 0..MaxTokens, o \in 0..MaxTokens, cr \in 0..MaxTokens, cw \in 0..MaxTokens}
    \cup {ExampleSession}

\* Directory names given to format_project_name: -<root>-<user>-<project>.
RootWords == {w_home, w_Users}
UserWords == {w_alice, w_bob, w_user, w_root}
ProjectWords ==
    {w_myrepo, w_tool \o <<"-">> \o w_v2, w_tool, w_v2, w_tool \o <<"-">> \o w_home,
     w_user \o <<"-">> \o w_tool, w_myrepo \o <<"-">> \o w_v2}

Encode(root, user, project) == <<"-">> \o root \o <<"-">> \o user \o <<"-">> \o project

EncodedNames == {Encode(r, u, p) : r \in RootWords, u \in UserWords, p \in ProjectWords}

(***************************************************************************)
(* State.                                                                  *)
(***************************************************************************)
VARIABLES
    pc,               \* where the run, or the function called on its own, is
    since_str,        \* args.since
    since,            \* the cutoff: None before parse_since, then Some(datetime)
    session_files,    \* the list find_session_files returned
    file_idx,         \* how many of session_files the loop of line 212 has done
    all_sessions,     \* main's accumulators
    project_stats,
    total_stats,
    parsed,           \* history: what parse_session_file returned for each file done
    filepath,         \* parse_session_file: the file, [readable, lines]
    sessions,         \* parse_session_file: the dict sessions
    lineno,           \* parse_session_file: how many lines the loop has read
    session,          \* calculate_cost: its argument
    cost,             \* calculate_cost: its result
    encoded_name,     \* format_project_name: its argument
    readable_project  \* format_project_name: its result

vars == <<pc, since_str, since, session_files, file_idx, all_sessions, project_stats,
          total_stats, parsed, filepath, sessions, lineno, session, cost, encoded_name,
          readable_project>>

mainVars == <<since_str, since, session_files, file_idx, all_sessions, project_stats,
              total_stats, parsed>>
parseVars == <<filepath, sessions, lineno>>
costVars == <<session, cost>>
nameVars == <<encoded_name, readable_project>>

Unused == <<>>

MainIdle ==
    /\ since_str = Unused /\ session_files = <<>> /\ file_idx = 0
    /\ all_sessions = <<>> /\ project_stats = <<>> /\ total_stats = NewTotalStats
    /\ parsed = <<>>
ParseIdle == filepath = UnreadableFile /\ sessions = EmptyDict /\ lineno = 0
CostIdle == session = Unused /\ cost = 0
NameIdle == encoded_name = Unused /\ readable_project = Unused

(***************************************************************************)
(* main: parse_since, find_session_files, the rollup loop, the report.     *)
(***************************************************************************)
Init ==
    /\ pc = "start"
    /\ since_str \in SinceTokens
    /\ since = None
    /\ session_files = <<>> /\ file_idx = 0
    /\ all_sessions = <<>> /\ project_stats = <<>> /\ total_stats = NewTotalStats
    /\ parsed = <<>>
    /\ ParseIdle /\ CostIdle /\ NameIdle

\* line 176: since = parse_since(args.since); the ValueError is not caught.
ParseSince ==
    /\ pc = "start"
    /\ LET r == parse_since(since_str, Now)
       IN  IF r = None THEN pc' = "raised" /\ since' = since
           ELSE pc' = "discover" /\ since' = r
    /\ UNCHANGED <<since_str, session_files, file_idx, all_sessions, project_stats,
                   total_stats, parsed, parseVars, costVars, nameVars>>

\* lines 184-210: find_session_files, the early return, the empty accumulators.
FindSessionFiles ==
    /\ pc = "discover"
    /\ \E l \in SessionFileLists :
        /\ session_files' = l
        /\ pc' = IF l = <<>> THEN "done" ELSE "rollup"
    /\ UNCHANGED <<since_str, since, file_idx, all_sessions, project_stats, total_stats,
                   parsed, parseVars, costVars, nameVars>>

\* lines 212-247: one iteration of the loop over session_files.
RollupNextFile ==
    /\ pc = "rollup"
    /\ file_idx < Len(session_files)
    /\ LET project_name == session_files[file_idx + 1][1]
           path == session_files[file_idx + 1][2]
           before == [all_sessions |-> all_sessions, project_stats |-> project_stats,
                      total_stats |-> total_stats]
       IN  \E result \in {parse_session_file(path, since[1])} :
           \E acc \in {RollupFrom(before, project_name, result, 1)} :
               /\ all_sessions' = acc.all_sessions
               /\ project_stats' = acc.project_stats
               /\ total_stats' = acc.total_stats
               /\ parsed' = Append(parsed, result)
    /\ file_idx' = file_idx + 1
    /\ UNCHANGED <<pc, since_str, since, session_files, parseVars, costVars, nameVars>>

\* lines 249-289: the loop is over, the report is printed.
Report ==
    /\ pc = "rollup"
    /\ file_idx = Len(session_files)
    /\ pc' = "done"
    /\ UNCHANGED <<mainVars, parseVars, costVars, nameVars>>

Next == ParseSince \/ FindSessionFiles \/ RollupNextFile \/ Report

Spec == Init /\ [][Next]_vars

(***************************************************************************)
(* parse_session_file on its own, a line at a time.                        *)
(***************************************************************************)
InitParse ==
    /\ pc = "open"
    /\ filepath \in ParseFiles
    /\ since \in {Some(c) : c \in ParseCutoffs}
    /\ sessions = EmptyDict
    /\ lineno = 0
    /\ MainIdle /\ CostIdle /\ NameIdle

\* line 84: open(filepath); the OSError goes to the handler of line 134.
OpenFile ==
    /\ pc = "open"
    /\ pc' = IF filepath.readable THEN "reading" ELSE "failed"
    /\ UNCHANGED <<mainVars, parseVars, costVars, nameVars>>

\* lines 85-133: the loop reads one more line; an exception ends the loop.
ReadLine ==
    /\ pc = "reading"
    /\ lineno < Len(filepath.lines)
    /\ LET r == ProcessLine(sessions, filepath.lines[lineno + 1], since[1])
       IN  /\ sessions' = r.sessions
           /\ pc' = IF r.raised THEN "failed" ELSE "reading"
    /\ lineno' = lineno + 1
    /\ UNCHANGED <<mainVars, filepath, costVars, nameVars>>

\* line 137: the file is exhausted, return dict(sessions).
ReturnSessions ==
    /\ pc = "reading"
    /\ lineno = Len(filepath.lines)
    /\ pc' = "returned"
    /\ UNCHANGED <<mainVars, parseVars, costVars, nameVars>>

NextParse == OpenFile \/ ReadLine \/ ReturnSessions

SpecParse == InitParse /\ [][NextParse]_vars

(***************************************************************************)
(* calculate_cost on its own.                                              *)
(***************************************************************************)
InitCost ==
    /\ pc = "call"
    /\ session \in CostSessions
    /\ cost = 0
    /\ since = None
    /\ MainIdle /\ ParseIdle /\ NameIdle

CalculateCost ==
    /\ pc = "call"
    /\ cost' = calculate_cost(session)
    /\ pc' = "returned"
    /\ UNCHANGED <<mainVars, parseVars, session, nameVars>>

NextCost == CalculateCost

SpecCost == InitCost /\ [][NextCost]_vars

(***************************************************************************)
(* format_project_name on its own.                                         *)
(***************************************************************************)
InitName ==
    /\ pc = "call"
    /\ encoded_name \in EncodedNames
    /\ readable_project = Unused
    /\ since = None
    /\ MainIdle /\ ParseIdle /\ CostIdle

FormatProjectName ==
    /\ pc = "call"
    /\ readable_project' = format_project_name(encoded_name)
    /\ pc' = "returned"
    /\ UNCHANGED <<mainVars, parseVars, costVars, encoded_name>>

NextName == FormatProjectName

SpecName == InitName /\ [][NextName]_vars

(***************************************************************************)
(* Properties of the rollup (specification Spec).                          *)
(***************************************************************************)
RECURSIVE SumOver(_, _, _)
\* The sum of d[k][field] over the keys k in S.
SumOver(d, S, field) ==
    IF S = {} THEN 0
    ELSE LET k == CHOOSE x \in S : TRUE
         IN  d[k][field] + SumOver(d, S \ {k}, field)

RECURSIVE SumTo(_, _)
\* f[1] + ... + f[n]
SumTo(f, n) == IF n = 0 THEN 0 ELSE f[n] + SumTo(f, n - 1)

CounterFields ==
    {"messages", "input_tokens", "output_tokens", "cache_read_tokens", "cache_write_tokens"}

\* The session ids of the i-th file whose session has messages > 0.
Yielded(P, i) == {id \in Keys(P[i]) : P[i].val[id].messages > 0}

\* The last file among the first n that yielded id.
LastYield(P, id, n) ==
    CHOOSE j \in 1..n : id \in Yielded(P, j) /\ \A k \in (j + 1)..n : id \notin Yielded(P, k)

\* C1: at every point of the rollup loop, for sessions, messages, each of the four
\* token counters and the cost, the sum over the per-project aggregates equals the
\* global total, also when two directories format to the same project name.
C1_RollupConservation ==
    \A field \in CounterFields \cup {"sessions", "cost"} :
        SumOver(project_stats, DOMAIN project_stats, field) = total_stats[field]

\* Two different directories with the same label have each contributed a session.
C1_Witness ==
    /\ file_idx = 2
    /\ session_files[1][1] # session_files[2][1]
    /\ format_project_name(session_files[1][1]) = format_project_name(session_files[2][1])
    /\ Yielded(parsed, 1) # {} /\ Yielded(parsed, 2) # {}
    /\ total_stats.sessions >= 2 /\ total_stats.cost > 0

\* C2: a session with messages = 0 is in no aggregate: the registry holds exactly the
\* ids some file yielded with messages > 0, each entry has messages > 0, no project
\* aggregate has sessions = 0, and the totals count only the sessions with messages > 0.
C2_ZeroMessageSessionsDropped ==
    LET P == parsed
    IN  /\ \A id \in DOMAIN all_sessions : all_sessions[id].messages > 0
        /\ \A p \in DOMAIN project_stats : project_stats[p].sessions > 0
        /\ DOMAIN all_sessions = UNION {Yielded(P, i) : i \in 1..file_idx}
        /\ total_stats.sessions
               = SumTo([i \in 1..file_idx |-> Cardinality(Yielded(P, i))], file_idx)
        /\ total_stats.sessions = 0 => DOMAIN project_stats = {} /\ total_stats = NewTotalStats

\* A file gave a session with no message, and the id is in no aggregate.
C2_Witness ==
    /\ file_idx >= 1
    /\ \E i \in 1..file_idx : \E id \in Keys(parsed[i]) :
        /\ parsed[i].val[id].messages = 0
        /\ id \notin DOMAIN all_sessions
    /\ total_stats.sessions > 0

\* C9: the registry entry of an id is the session of the last file that yielded it
\* (its project label, counters, model, timestamps and cost), nothing of an earlier
\* file's session of the same id being merged into it.
C9_LastFileWins ==
    LET P == parsed
    IN  \A id \in DOMAIN all_sessions :
            LET j == LastYield(P, id, file_idx)
                s == P[j].val[id]
                e == all_sessions[id]
            IN  /\ e.project = format_project_name(session_files[j][1])
                /\ \A field \in CounterFields : e[field] = s[field]
                /\ e.model = s.model /\ e.git_branch = s.git_branch
                /\ e.start_time = s.start_time /\ e.end_time = s.end_time
                /\ e.cost = calculate_cost(s)

\* Two files in a row yielded s1, with different sessions and different labels.
C9_Witness ==
    /\ file_idx = 2
    /\ "s1" \in Yielded(parsed, 1) \cap Yielded(parsed, 2)
    /\ parsed[1].val["s1"] # parsed[2].val["s1"]
    /\ format_project_name(session_files[1][1]) # format_project_name(session_files[2][1])
    /\ all_sessions["s1"].input_tokens = parsed[2].val["s1"].input_tokens

\* No session id was yielded (with messages > 0) by two of the files done so far.
NoDuplicateIds(P) ==
    \A i \in 1..file_idx : \A j \in (i + 1)..file_idx : Yielded(P, i) \cap Yielded(P, j) = {}

RegistryEqualsTotals ==
    /\ total_stats.sessions = Cardinality(DOMAIN all_sessions)
    /\ \A field \in CounterFields :
        total_stats[field] = SumOver(all_sessions, DOMAIN all_sessions, field)

\* C10: the global totals are at least the sums over the registry (sessions against
\* the number of entries, messages and tokens against the sums of the fields), and
\* they are all equal exactly when no session id, the sentinel "unknown" included,
\* was yielded with messages > 0 by more than one file.  For sessions and for
\* messages alone the equality is already equivalent to that.
C10_RegistryVersusTotals ==
    LET nodup == NoDuplicateIds(parsed)
    IN  /\ total_stats.sessions >= Cardinality(DOMAIN all_sessions)
        /\ \A field \in CounterFields :
            total_stats[field] >= SumOver(all_sessions, DOMAIN all_sessions, field)
        /\ RegistryEqualsTotals <=> nodup
        /\ (total_stats.sessions = Cardinality(DOMAIN all_sessions)) <=> nodup
        /\ (total_stats.messages = SumOver(all_sessions, DOMAIN all_sessions, "messages"))
              <=> nodup

\* Two files each gave records without a sessionId: one entry "unknown", two counted.
C10_Witness ==
    /\ file_idx = 2
    /\ "unknown" \in Yielded(parsed, 1) \cap Yielded(parsed, 2)
    /\ total_stats.sessions > Cardinality(DOMAIN all_sessions)

\* C6: a token that is no keyword, not ISO-8601 and no non-negative integer makes
\* parse_since fail: the run ends there, before any file is discovered or parsed.
C6_BadTokenFails ==
    (/\ since_str \notin {kw_yesterday, kw_today, kw_week, kw_month}
     /\ FromIsoFormat(since_str) = None
     /\ ~(PyInt(since_str) # None /\ PyInt(since_str)[1] >= 0))
    => (/\ pc \in {"start", "raised"}
        /\ since = None /\ session_files = <<>> /\ file_idx = 0
        /\ all_sessions = <<>> /\ project_stats = <<>> /\ total_stats = NewTotalStats)

(***************************************************************************)
(* Properties of calculate_cost (specification SpecCost).                  *)
(***************************************************************************)
\* The price-table entry the claim names for a session.
RatesFor(s) ==
    IF "model" \in DOMAIN s /\ s.model # None /\ s.model[1] \in DOMAIN PRICING
    THEN PRICING[s.model[1]] ELSE PRICING["default"]

WithDefaultModel(s) ==
    [model |-> Some("default"), input_tokens |-> s.input_tokens,
     output_tokens |-> s.output_tokens, cache_read_tokens |-> s.cache_read_tokens,
     cache_write_tokens |-> s.cache_write_tokens]

\* C7: the cost is the unrounded sum over the four categories of tokens x rate, at
\* the rates of the session's model when the price table has it and at the "default"
\* rates otherwise; an unrecognised model and a None or absent model cost exactly
\* what the same counters cost with model "default"; the worked example costs 0.0028.
C7_CostCalculation ==
    pc = "returned" =>
        /\ cost = session.input_tokens * RatesFor(session).input
                  + session.output_tokens * RatesFor(session).output
                  + session.cache_read_tokens * RatesFor(session).cache_read
                  + session.cache_write_tokens * RatesFor(session).cache_write
        /\ ("model" \notin DOMAIN session \/ session.model = None
                \/ session.model[1] \notin DOMAIN PRICING)
            => cost = calculate_cost(WithDefaultModel(session))
        /\ session = ExampleSession => cost = 280000

\* An unrecognised model has been priced, every counter positive.
C7_Witness ==
    /\ pc = "returned"
    /\ "model" \in DOMAIN session /\ session.model = Some("gpt-x")
    /\ session.input_tokens > 0 /\ session.output_tokens > 0
    /\ session.cache_read_tokens > 0 /\ session.cache_write_tokens > 0
    /\ cost > 0

(***************************************************************************)
(* Properties of format_project_name (specification SpecName).             *)
(***************************************************************************)
\* C8: the label of a directory name -<home|Users>-<user name>-<project> is the
\* project part alone, its own hyphens kept: -home-alice-myrepo gives myrepo and
\* -Users-bob-tool-v2 gives tool-v2.
C8_ProjectLabel ==
    pc = "returned" =>
        /\ encoded_name = dir_home_alice_myrepo => readable_project = w_myrepo
        /\ encoded_name = dir_Users_bob_tool_v2
               => readable_project = w_tool \o <<"-">> \o w_v2
        /\ \A r \in RootWords : \A u \in UserWords : \A p \in ProjectWords :
               encoded_name = Encode(r, u, p) => readable_project = p

(***************************************************************************)
(* Properties of parse_session_file (specification SpecParse).             *)
(***************************************************************************)
ParseOver == pc \in {"returned", "failed"}

\* The lines of the file that hold a record: a decoded JSON object.
IsRecord(line) == line.kind = "json" /\ line.value.t = "obj"

\* The record's timestamp parses and is at or after the cutoff.
InWindow(line) ==
    /\ IsRecord(line)
    /\ RecordTime(line.value.o) # None
    /\ RecordTime(line.value.o)[1].inst >= since[1].inst

IdOf(line) ==
    IF line.value.o.sessionId = Absent THEN "unknown" ELSE line.value.o.sessionId.s

\* In window, of session id, of type "assistant" and with a message field.
Counted(line, id) ==
    /\ InWindow(line) /\ IdOf(line) = id
    /\ line.value.o.type = Assistant /\ line.value.o.message # Absent

\* The usage field of a counted record, a missing usage or sub-field being 0.
UsageOf(line, key) ==
    LET msg == line.value.o.message
    IN  IF msg.t # "obj" THEN 0
        ELSE IF msg.o.usage = Absent \/ msg.o.usage.t # "obj" THEN 0
        ELSE GetOr0(msg.o.usage.o[key])

RECURSIVE SumUsage(_, _, _, _)
SumUsage(lines, k, id, key) ==
    IF k = 0 THEN 0
    ELSE SumUsage(lines, k - 1, id, key)
         + (IF Counted(lines[k], id) THEN UsageOf(lines[k], key) ELSE 0)

\* The counters of a result: of each session id, its message and token counts.
Counters(d) ==
    [id \in Keys(d) |->
        [messages |-> d.val[id].messages, input_tokens |-> d.val[id].input_tokens,
         output_tokens |-> d.val[id].output_tokens,
         cache_read_tokens |-> d.val[id].cache_read_tokens,
         cache_write_tokens |-> d.val[id].cache_write_tokens]]

Reordered(lines, perm) == [i \in 1..Len(lines) |-> lines[perm[i]]]

\* C3: a record with a parseable timestamp updates its session iff the timestamp is
\* at or after the cutoff, whatever lines come before it (a skipped line never ends
\* the scan), and the counters are the same for every order of the lines.
C3_CutoffFilter ==
    (ParseOver /\ filepath.readable) =>
        /\ Keys(sessions)
             = {IdOf(filepath.lines[i]) :
                    i \in {k \in 1..Len(filepath.lines) : InWindow(filepath.lines[k])}}
        /\ \A perm \in Permutations(1..Len(filepath.lines)) :
               Counters(parse_session_file(
                   [readable |-> TRUE, lines |-> Reordered(filepath.lines, perm)], since[1]))
               = Counters(sessions)

\* C4: of every session id of the result, messages is the number of records in the
\* window with that id (or without sessionId, for "unknown") of type "assistant"
\* and with a message, and each token counter is the sum of the usage field over
\* exactly those records, a missing usage or sub-field being 0.
C4_TokenAccumulation ==
    ParseOver =>
        \A id \in Keys(sessions) :
            LET lines == filepath.lines
                s == sessions.val[id]
            IN  /\ s.messages
                     = Cardinality({k \in 1..Len(lines) : Counted(lines[k], id)})
                /\ s.input_tokens = SumUsage(lines, Len(lines), id, "input_tokens")
                /\ s.output_tokens = SumUsage(lines, Len(lines), id, "output_tokens")
                /\ s.cache_read_tokens
                     = SumUsage(lines, Len(lines), id, "cache_read_input_tokens")
                /\ s.cache_write_tokens
                     = SumUsage(lines, Len(lines), id, "cache_creation_input_tokens")

\* C5: when the file cannot be opened, or reading or processing it fails at some
\* line, the mapping returned for the file is empty.
C5_FailureReturnsEmpty == pc = "failed" => sessions = EmptyDict

====
